---- MODULE Spec2Model ----
(***************************************************************************)
(* Model of spectrometer/processor/main.py: the update cycle (main,        *)
(* update_records, process_repo, process_mail_list, update_members,        *)
(* apply_corrections), the commit merge policy (_merge_commits) and the    *)
(* taxonomy builder (_read_official_programs_yaml, process_program_list).  *)
(* The storage, the adapters and the record processor are collaborators    *)
(* of main.py; they are modelled from their contracts.                     *)
(***************************************************************************)
EXTENDS Integers, Sequences, FiniteSets, TLC

VARIABLES
    kv,             \* runtime storage, get_by_key/set_by_key: key name -> value
    cursor,         \* runtime storage, the vcs:/rcs: keys: <<kind, quoted uri, branch>> -> id
    records,        \* runtime storage, the records: primary key -> record
    default_data,   \* what read_json_from_uri(default_data_uri) has to offer
    vcs_remote,     \* upstream repositories: <<uri, branch>> -> number of commits
    vcs_local,      \* local clones (moved by fetch): <<uri, branch>> -> number of commits
    rcs_remote,     \* review system: <<uri, branch>> -> number of reviews
    news,           \* number of upstream arrivals so far
    pc,             \* position of main()
    result,         \* outcome of the last main(): "none", "ok", "failed", "raised"
    cycle,          \* number of main() runs started
    ri,             \* update_records: index of the repository being processed
    mi,             \* update_records: index of the mailing list being processed
    branches_left,  \* process_repo: branches of the for loop not yet visited
    branch,         \* process_repo: the loop variable
    kind,           \* process_repo: "vcs" in the commit phase, "rcs" in the review phase
    last_id,        \* process_repo: the local last_id
    pending,        \* process_repo: the records the iterator handed to set_records yields
    handed,         \* the argument lists storage.apply_corrections was called with
    doc,            \* what read_json_from_uri(corrections_uri) returns
    feed,           \* the descriptor feed behind program_list_uri
    official,       \* process_program_list: the local official_module_groups
    ran,            \* history: <<uri, branch, kind>> -> phases started in this cycle
    wrote,          \* history: cursor keys written in this cycle
    updates,        \* history: calls of record_processor_inst.update() in this cycle
    program_runs,   \* history: calls of process_program_list so far
    raised_in,      \* history: uris of the sources whose pass raised in this cycle
    completed,      \* history: uris of the sources whose pass returned in this cycle
    failed_phase,   \* history: the last phase whose record stream raised
    sync_start,     \* history: records and cursors when update_records started
    quiet_runs,     \* history: consecutive completed update_records without upstream arrival
    tainted,        \* history: an upstream arrival happened since update_records started
    last_merge,     \* history: the last call of a merge policy
    merged_union,   \* history: primary key -> first record and union of the branch sets merged
    merges          \* history: number of commit merges applied

storeVars == <<kv, cursor, records>>
upVars == <<vcs_remote, vcs_local, rcs_remote, news>>
repoVars == <<branches_left, branch, kind, last_id, pending>>
ioVars == <<default_data, handed, doc, feed, official>>
histVars == <<ran, wrote, updates, program_runs, raised_in, completed, failed_phase,
              sync_start, quiet_runs, tainted>>
mergeVars == <<last_merge, merged_union, merges>>

vars == <<storeVars, upVars, pc, result, cycle, ri, mi, repoVars, ioVars, histVars,
          mergeVars>>

---------------------------------------------------------------------------
(* Bounds *)

MaxHead == 2        \* records per upstream stream
MaxNew == 1         \* upstream arrivals per behaviour
MaxCycles == 2      \* runs of main()
MaxMerges == 3      \* merges applied to one commit in the merge specification

---------------------------------------------------------------------------
(* Values *)

Absent == -1        \* get_by_key of a key that was never set (None)

NoPhase == [key |-> <<"none", "", "">>, start |-> Absent, merged |-> {}]
NoMerge == [had |-> FALSE, ret |-> FALSE, pk |-> <<"none", "", "", 0>>]

BranchNames == {"master", "stable/kilo", "stable/juno"}

---------------------------------------------------------------------------
(* Merge policies *)

\* _merge_commits storing the incoming branch set instead of the union
MergeCommitsReplace(original, new) ==
    IF new.branches # original.branches /\ new.branches \subseteq original.branches
    THEN [ret |-> FALSE, original |-> original]
    ELSE [ret |-> TRUE, original |-> [original EXCEPT !.branches = new.branches]]

\* main.py _merge_commits: "<" on Python sets is proper subset
_merge_commits(original, new) ==
    IF new.branches # original.branches /\ new.branches \subseteq original.branches
    THEN [ret |-> FALSE, original |-> original]
    ELSE [ret |-> TRUE,
          original |-> [original EXCEPT !.branches = @ \cup new.branches]]

\* utils.merge_records: the incoming fields are written over the existing ones
merge_records(original, new) ==
    LET differs == {f \in DOMAIN new : f \notin DOMAIN original \/ original[f] # new[f]}
    IN  [ret |-> differs # {}, original |-> new @@ original]

---------------------------------------------------------------------------
(* Runtime storage (spectrometer.processor.runtime_storage) *)

get_by_key(key) == IF key \in DOMAIN kv THEN kv[key] ELSE <<>>

\* get_by_key of a vcs:/rcs: key
get_cursor(cur, key) == IF key \in DOMAIN cur THEN cur[key] ELSE Absent

\* set_by_key of a vcs:/rcs: key
set_cursor(cur, key, id) == (key :> id) @@ cur

ApplyHandler(handler, original, new) ==
    IF handler = "_merge_commits" THEN _merge_commits(original, new)
    ELSE merge_records(original, new)

\* set_records, one iteration of its loop: insert, overwrite or merge
SetRecord(recs, record, handler) ==
    LET pk == record.primary_key IN
    IF pk \in DOMAIN recs
    THEN IF handler = "none"
         THEN [recs EXCEPT ![pk] = ("record_id" :> recs[pk].record_id) @@ record]
         ELSE LET m == ApplyHandler(handler, recs[pk], record)
              IN  IF m.ret THEN [recs EXCEPT ![pk] = m.original] ELSE recs
    ELSE (pk :> (("record_id" :> Cardinality(DOMAIN recs)) @@ record)) @@ recs

\* set_records over the first n records of a stream
RECURSIVE SetRecords(_, _, _, _)
SetRecords(recs, stream, n, handler) ==
    IF n = 0 THEN recs
    ELSE SetRecord(SetRecords(recs, stream, n - 1, handler), stream[n], handler)

---------------------------------------------------------------------------
(* Record typer, record processor, adapters *)

\* _record_typer: every record of the stream gets record_type
_record_typer(stream, record_type) ==
    [i \in DOMAIN stream |-> ("record_type" :> record_type) @@ stream[i]]

\* record_processor.process: enrichment gives every record its identity
Process(stream) ==
    [i \in DOMAIN stream |->
        ("primary_key" :> <<stream[i].record_type, stream[i].uri,
                            IF "branch" \in DOMAIN stream[i] THEN stream[i].branch
                            ELSE "", stream[i].id>>) @@ stream[i]]

\* the ids a log(branch, last_id) call yields from a stream of head records
Since(id, head) == IF id = Absent THEN 1 .. head ELSE (id + 1) .. head

RECURSIVE Ascending(_)
Ascending(S) ==
    IF S = {} THEN <<>>
    ELSE LET m == CHOOSE x \in S : \A y \in S : x <= y
         IN  <<m>> \o Ascending(S \ {m})

\* vcs_inst.log(branch, last_id): raw commits of the local clone after last_id
VcsLog(uri, b, id) ==
    LET ids == Ascending(Since(id, vcs_local[<<uri, b>>]))
    IN  [i \in DOMAIN ids |-> [id |-> ids[i], uri |-> uri, branches |-> {b}]]

\* rcs_inst.log(branch, last_id): raw reviews of the review system after last_id
RcsLog(uri, b, id) ==
    LET ids == Ascending(Since(id, rcs_remote[<<uri, b>>]))
    IN  [i \in DOMAIN ids |-> [id |-> ids[i], uri |-> uri, branch |-> b]]

\* get_last_id(branch): the adapter's own head
GetLastId(k, uri, b) ==
    IF k = "vcs" THEN vcs_local[<<uri, b>>] ELSE rcs_remote[<<uri, b>>]

---------------------------------------------------------------------------
(* Taxonomy builder *)

\* str.lower() on the names of the model
Lower(s) ==
    CASE s = "Compute" -> "compute"
      [] s = "Documentation" -> "documentation"
      [] s = "Nova" -> "nova"
      [] s = "Prehistory" -> "prehistory"
      [] s = "Icehouse" -> "icehouse"
      [] s = "Juno" -> "juno"
      [] s = "Kilo" -> "kilo"
      [] s = "Liberty" -> "liberty"
      [] OTHER -> s

\* '%s (%s)' % (codename, name)
FormatName(codename, name) ==
    CASE codename = "Nova" /\ name = "Compute" -> "Nova (Compute)"
      [] codename = "Nova" /\ name = "Documentation" -> "Nova (Documentation)"
      [] OTHER -> "(formatted)"

\* '%s-group' % codename.lower()
FormatGroup(codename) ==
    CASE Lower(codename) = "nova" -> "nova-group"
      [] OTHER -> "(group)"

\* the default factory of the defaultdict module_groups
NewGroup == [modules |-> <<>>, releases |-> <<>>]

\* module_groups[group_id]: a missing group is created on access
Vivify(mg, group_id) ==
    IF group_id \in DOMAIN mg THEN mg ELSE (group_id :> NewGroup) @@ mg

\* module_groups[group_id][field] = value
SetField(mg, group_id, field, value) ==
    LET g == Vivify(mg, group_id)
    IN  [g EXCEPT ![group_id] = (field :> value) @@ @]

\* module_groups[group_id]['modules'].append(module_name)
AppendModule(mg, group_id, module_name) ==
    LET g == Vivify(mg, group_id)
    IN  [g EXCEPT ![group_id].modules = Append(@, module_name)]

\* module_groups[group_id]['releases'][release_name].append(module_name)
AppendRelease(mg, group_id, release_name, module_name) ==
    LET g == Vivify(mg, group_id)
        r == g[group_id].releases
    IN  [g EXCEPT ![group_id].releases =
            IF release_name \in DOMAIN r
            THEN [r EXCEPT ![release_name] = Append(@, module_name)]
            ELSE (release_name :> <<module_name>>) @@ r]

RELEASE_TAGS == <<"bootstrapped-since", "incubated-since", "mature-since", "core-since">>

\* release_name == module.get(tag)
Names(module, tag, release_name) ==
    tag \in DOMAIN module /\ module[tag] = release_name

\* lines 223-230: the if/elif chain; project_type is kept when no field names the release
ProjectType(module, release_name, project_type) ==
    IF Names(module, "bootstrapped-since", release_name) THEN "official-bootstrap"
    ELSE IF Names(module, "incubated-since", release_name) THEN "official-incubation"
    ELSE IF Names(module, "mature-since", release_name) THEN "official-mature"
    ELSE IF Names(module, "core-since", release_name) THEN "official-core"
    ELSE project_type

\* lines 221-233: the loop over the known releases, from the i-th on
RECURSIVE ReleaseLoop(_, _, _, _, _, _)
ReleaseLoop(mg, module, module_name, releases, i, project_type) ==
    IF i > Len(releases) THEN mg
    ELSE LET pt == ProjectType(module, releases[i], project_type)
         IN  ReleaseLoop(AppendRelease(mg, pt, releases[i], module_name),
                         module, module_name, releases, i + 1, pt)

\* module['repo'].split('/')[1]; a repo is kept as the list of its '/'-separated parts
ModuleName(module) == module["repo"][2]

\* the loop over the releases is run for a module without status field too
ProcessModuleAlwaysReleases(mg, group_id, module, release_names) ==
    LET module_name == ModuleName(module)
        mg1 == AppendModule(mg, group_id, module_name)
    IN  ReleaseLoop(mg1, module, module_name,
                    [i \in DOMAIN release_names |-> Lower(release_names[i])],
                    1, "official-other")

\* lines 214-235: the body of the loop over the modules of a program
ProcessModule(mg, group_id, module, release_names) ==
    LET module_name == ModuleName(module)
        mg1 == AppendModule(mg, group_id, module_name)
    IN  IF \E t \in DOMAIN RELEASE_TAGS : RELEASE_TAGS[t] \in DOMAIN module
        THEN ReleaseLoop(mg1, module, module_name,
                         [i \in DOMAIN release_names |-> Lower(release_names[i])],
                         1, "official-other")
        ELSE AppendModule(mg1, "other", module_name)

RECURSIVE ModuleLoop(_, _, _, _, _)
ModuleLoop(mg, group_id, projects, n, release_names) ==
    IF n = 0 THEN mg
    ELSE ProcessModule(ModuleLoop(mg, group_id, projects, n - 1, release_names),
                       group_id, projects[n], release_names)

\* lines 206-235: the body of the loop over the programs
ProcessProgram(mg, name, info, release_names) ==
    LET coded == "codename" \in DOMAIN info
        group_id == IF coded THEN FormatGroup(info.codename) ELSE Lower(name)
        shown == IF coded THEN FormatName(info.codename, name) ELSE name
        mg1 == SetField(SetField(mg, group_id, "module_group_name", shown),
                        group_id, "tag", "program")
    IN  ModuleLoop(mg1, group_id, info.projects, Len(info.projects), release_names)

RECURSIVE ProgramLoop(_, _, _, _)
ProgramLoop(mg, content, n, release_names) ==
    IF n = 0 THEN mg
    ELSE ProcessProgram(ProgramLoop(mg, content, n - 1, release_names),
                        content[n].name, content[n].info, release_names)

\* lines 188-199: the four project_type groups
ProjectTypeGroups ==
    [g \in {"official-bootstrap", "official-incubation", "official-mature",
            "official-core"} |->
        [modules |-> <<>>, releases |-> <<>>, tag |-> "project_type",
         module_group_name |-> g]]

\* _read_official_programs_yaml; content lists the feed in iteration order
_read_official_programs_yaml(content, release_names) ==
    LET mg == ProgramLoop(ProjectTypeGroups, content, Len(content), release_names)
    IN  [g \in DOMAIN mg |-> ("id" :> g) @@ mg[g]]

\* utils.make_module_group(module_group_id, tag='module')
make_module_group(module_group_id, tag) ==
    [id |-> module_group_id, module_group_name |-> module_group_id,
     modules |-> <<module_group_id>>, tag |-> tag]

\* the assignment adding the module to a group that is there already
RegisterModuleAppending(mg, module) ==
    IF module \in DOMAIN mg
    THEN [mg EXCEPT ![module].modules = Append(@, module)]
    ELSE (module :> make_module_group(module, "module")) @@ mg

\* process_program_list, line 258: module_groups[module] = make_module_group(...)
RegisterModule(mg, module) == (module :> make_module_group(module, "module")) @@ mg

\* process_program_list, lines 255-258: a group per repository module
RECURSIVE RegisterRepos(_, _, _)
RegisterRepos(mg, repos, n) ==
    IF n = 0 THEN mg
    ELSE RegisterModule(RegisterRepos(mg, repos, n - 1), repos[n].module)

\* process_program_list, lines 246-247: the known releases but the first, lower-cased
ReleaseNames(store) ==
    LET rel == store["releases"]
    IN  [i \in 1 .. (Len(rel) - 1) |-> Lower(rel[i + 1].release_name)]

\* process_program_list with the persisted groups kept where the feed computes
\* a group of the same id
ProcessProgramListKeepsPersisted(store, content) ==
    LET module_groups == IF "module_groups" \in DOMAIN store
                         THEN store["module_groups"] ELSE <<>>
        updated == module_groups
                   @@ _read_official_programs_yaml(content, ReleaseNames(store))
        repos == IF "repos" \in DOMAIN store THEN store["repos"] ELSE <<>>
        registered == RegisterRepos(updated, repos, Len(repos))
    IN  ("unknown" :> make_module_group("unknown", "module")) @@ registered

\* process_program_list: the value written under module_groups
process_program_list(store, content) ==
    LET module_groups == IF "module_groups" \in DOMAIN store
                         THEN store["module_groups"] ELSE <<>>
        updated == _read_official_programs_yaml(content, ReleaseNames(store))
                   @@ module_groups
        repos == IF "repos" \in DOMAIN store THEN store["repos"] ELSE <<>>
        registered == RegisterRepos(updated, repos, Len(repos))
    IN  ("unknown" :> make_module_group("unknown", "module")) @@ registered

\* the batch is given up at the first entry without primary_key
ValidCorrectionsUntilInvalid(corrections) ==
    LET bad == {i \in DOMAIN corrections : "primary_key" \notin DOMAIN corrections[i]}
    IN  IF bad = {} THEN corrections
        ELSE SubSeq(corrections, 1, (CHOOSE i \in bad : \A j \in bad : i <= j) - 1)

\* apply_corrections, lines 173-178: the entries that carry primary_key
ValidCorrections(corrections) ==
    SelectSeq(corrections, LAMBDA c : "primary_key" \in DOMAIN c)

\* storage.apply_corrections: every correction is written over the record it names
RECURSIVE StoreCorrections(_, _, _)
StoreCorrections(recs, corrections, n) ==
    IF n = 0 THEN recs
    ELSE LET done == StoreCorrections(recs, corrections, n - 1)
             c == corrections[n]
         IN  IF c.primary_key \in DOMAIN done
             THEN [done EXCEPT ![c.primary_key] = c @@ @]
             ELSE done

---------------------------------------------------------------------------
(* Configuration of the update cycle *)

Uris == {"git://a", "git://b"}

\* parse.quote_plus(uri)
QuotePlus(uri) ==
    CASE uri = "git://a" -> "git%3A%2F%2Fa"
      [] uri = "git://b" -> "git%3A%2F%2Fb"
      [] OTHER -> uri

\* 'vcs:' + str(parse.quote_plus(uri) + ':' + branch), kept as its three parts
CursorKey(k, uri, b) == <<k, QuotePlus(uri), b>>

RelKilo == [release_name |-> "Kilo", branch |-> "stable/kilo"]
RelNoBranch == [release_name |-> "Liberty"]
ReleaseLists == {<<>>, <<RelKilo, RelNoBranch>>}

RepoA(rels) == [uri |-> "git://a", module |-> "nova", releases |-> rels]

\* a repository of the default data that has no releases key
RepoABare == [uri |-> "git://a", module |-> "nova"]
RepoB(rels) == [uri |-> "git://b", module |-> "neutron", releases |-> rels]

KnownReleases == <<[release_name |-> "Prehistory"], [release_name |-> "Juno"],
                   [release_name |-> "Kilo"]>>

DefaultDataChoices ==
    {[repos |-> rs, mail_lists |-> <<"ml://a", "ml://b">>,
      member_lists |-> <<"mp://members">>, releases |-> KnownReleases] :
        rs \in UNION {{<<a, RepoB(<<>>)>>, <<RepoB(<<>>), a>>} :
                        a \in {RepoA(ra) : ra \in ReleaseLists} \cup {RepoABare}}}

CycleFeed ==
    <<[name |-> "Compute",
       info |-> [codename |-> "Nova",
                 projects |-> <<("mature-since" :> "kilo") @@
                                [repo |-> <<"openstack", "nova">>]>>]]>>

CycleDocs ==
    {<<>>,
     [note |-> "no corrections"],
     [corrections |-> <<[primary_key |-> <<"commit", "git://a", "", 1>>,
                         module |-> "nova"],
                        [module |-> "neutron"]>>]}

\* process_repo with master left out of the branches
RepoBranchesNoMaster(repo) ==
    {repo.releases[i].branch :
        i \in {j \in DOMAIN repo.releases : "branch" \in DOMAIN repo.releases[j]}}

\* process_repo, lines 89-92: the branches to synchronize
RepoBranches(repo) ==
    {"master"} \cup
    {repo.releases[i].branch :
        i \in {j \in DOMAIN repo.releases : "branch" \in DOMAIN repo.releases[j]}}

StreamKeys == Uris \X {"master", "stable/kilo"}

\* the branches a configured repository is to be synchronized for
Branches(repo) == IF "releases" \in DOMAIN repo THEN RepoBranches(repo) ELSE {"master"}

ActiveStreams ==
    {s \in StreamKeys :
        \E i \in DOMAIN default_data.repos :
            /\ default_data.repos[i].uri = s[1]
            /\ s[2] \in Branches(default_data.repos[i])}

\* utils.load_repos(runtime_storage_inst)
Repos == get_by_key("repos")

CurrentRepo == Repos[ri]

CurrentKey == CursorKey(kind, CurrentRepo.uri, branch)

Bump(f, key) == IF key \in DOMAIN f THEN [f EXCEPT ![key] = @ + 1] ELSE (key :> 1) @@ f

---------------------------------------------------------------------------
(* Upstream *)

\* a stream has a reader next: fetch is the only reader of an upstream repository,
\* log and get_last_id of the review phase are the only readers of the review system
NextReads(k, s) ==
    IF k = "vcs"
    THEN pc = "repos" /\ ri <= Len(Repos) /\ CurrentRepo.uri = s[1]
    ELSE /\ pc = "reviews" \/ (pc \in {"merge", "cursor"} /\ kind = "rcs")
         /\ CurrentRepo.uri = s[1]
         /\ branch = s[2]

\* a commit is pushed to a branch of an upstream repository; an arrival shows
\* only in the next call that reads its stream, and is taken when one is due
NewCommit(s) ==
    /\ s \in ActiveStreams
    /\ NextReads("vcs", s)
    /\ news < MaxNew
    /\ vcs_remote[s] < MaxHead
    /\ vcs_remote' = [vcs_remote EXCEPT ![s] = @ + 1]
    /\ news' = news + 1
    /\ quiet_runs' = 0
    /\ tainted' = TRUE
    /\ UNCHANGED <<storeVars, vcs_local, rcs_remote, pc, result, cycle, ri, mi, repoVars,
                   ioVars, ran, wrote, updates, raised_in, completed, failed_phase,
                   sync_start, mergeVars, program_runs>>

\* a review is opened on a branch in the review system
NewReview(s) ==
    /\ s \in ActiveStreams
    /\ NextReads("rcs", s)
    /\ news < MaxNew
    /\ rcs_remote[s] < MaxHead
    /\ rcs_remote' = [rcs_remote EXCEPT ![s] = @ + 1]
    /\ news' = news + 1
    /\ quiet_runs' = 0
    /\ tainted' = TRUE
    /\ UNCHANGED <<storeVars, vcs_local, vcs_remote, pc, result, cycle, ri, mi, repoVars,
                   ioVars, ran, wrote, updates, raised_in, completed, failed_phase,
                   sync_start, mergeVars, program_runs>>

---------------------------------------------------------------------------
(* main() *)

\* an exception leaves main(): nothing in main.py catches it
Raised(src) ==
    /\ pc' = "idle"
    /\ result' = "raised"
    /\ raised_in' = raised_in \cup {src}
    /\ quiet_runs' = 0

\* a new run of main() starts with fresh locals
FreshLocals ==
    /\ ri' = 0
    /\ mi' = 0
    /\ branches_left' = {}
    /\ branch' = ""
    /\ kind' = ""
    /\ last_id' = Absent
    /\ pending' = <<>>

\* main without the return of line 282: the run goes on after the failed load
LoadDefaultDataFailGoesOn ==
    /\ pc = "idle"
    /\ cycle < MaxCycles
    /\ cycle' = cycle + 1
    /\ result' = "failed"
    /\ pc' = "programs"
    /\ FreshLocals
    /\ ran' = <<>>
    /\ wrote' = {}
    /\ updates' = 0
    /\ raised_in' = {}
    /\ completed' = {}
    /\ quiet_runs' = 0
    /\ UNCHANGED <<storeVars, upVars, ioVars, failed_phase, sync_start, tainted,
                   mergeVars, program_runs>>

\* main, lines 279-282: the default data cannot be read
LoadDefaultDataFail ==
    /\ pc = "idle"
    /\ cycle < MaxCycles
    /\ cycle' = cycle + 1
    /\ result' = "failed"
    /\ FreshLocals
    /\ ran' = <<>>
    /\ wrote' = {}
    /\ updates' = 0
    /\ raised_in' = {}
    /\ completed' = {}
    /\ quiet_runs' = 0
    /\ UNCHANGED <<storeVars, upVars, pc, ioVars, failed_phase, sync_start, tainted,
                   mergeVars, program_runs>>

\* main, lines 279-286: the default data is read and processed into the storage
LoadDefaultData ==
    /\ pc = "idle"
    /\ cycle < MaxCycles
    /\ cycle' = cycle + 1
    /\ kv' = [k \in {"repos", "mail_lists", "member_lists", "releases"} |->
                default_data[k]] @@ kv
    /\ pc' = "programs"
    /\ result' = "none"
    /\ FreshLocals
    /\ ran' = <<>>
    /\ wrote' = {}
    /\ updates' = 0
    /\ raised_in' = {}
    /\ completed' = {}
    /\ UNCHANGED <<cursor, records, upVars, ioVars, failed_phase, sync_start, quiet_runs,
                   tainted, mergeVars, program_runs>>

\* main, line 288: process_program_list
ProcessProgramList ==
    /\ pc = "programs"
    /\ kv' = ("module_groups" :> process_program_list(kv, feed)) @@ kv
    /\ official' = _read_official_programs_yaml(feed, ReleaseNames(kv))
    /\ program_runs' = program_runs + 1
    /\ pc' = "pids"
    /\ UNCHANGED <<cursor, records, upVars, result, cycle, ri, mi, repoVars, default_data,
                   handed, doc, feed, ran, wrote, updates, raised_in, completed,
                   failed_phase, sync_start, quiet_runs, tainted, mergeVars>>

\* main, line 288: the descriptor feed cannot be read or parsed
ProgramListRaise ==
    /\ pc = "programs"
    /\ Raised("program_list")
    /\ UNCHANGED <<storeVars, upVars, cycle, ri, mi, repoVars, ioVars, ran, wrote,
                   updates, completed, failed_phase, sync_start, tainted, mergeVars,
                   program_runs>>

\* main, lines 290-295: update_pids, the record processor, entry of update_records
UpdatePids ==
    /\ pc = "pids"
    /\ pc' = "repos"
    /\ ri' = 1
    /\ sync_start' = [records |-> records, cursor |-> cursor]
    /\ tainted' = FALSE
    /\ UNCHANGED <<storeVars, upVars, result, cycle, mi, repoVars, ioVars, ran, wrote,
                   updates, raised_in, completed, failed_phase, quiet_runs, mergeVars,
                   program_runs>>

---------------------------------------------------------------------------
(* process_repo *)

\* lines 79-83: the vcs adapter of the repository and its fetch
RepoFetch ==
    /\ pc = "repos"
    /\ ri <= Len(Repos)
    /\ vcs_local' = [s \in StreamKeys |->
                        IF s[1] = CurrentRepo.uri THEN vcs_remote[s] ELSE vcs_local[s]]
    /\ pc' = "fetched"
    /\ UNCHANGED <<storeVars, vcs_remote, rcs_remote, news, result, cycle, ri, mi,
                   repoVars, ioVars, histVars, mergeVars>>

\* lines 85-87: the rcs adapter of the repository and its setup
RepoSetup ==
    /\ pc = "fetched"
    /\ pc' = "setup"
    /\ UNCHANGED <<storeVars, upVars, result, cycle, ri, mi, repoVars, ioVars, histVars,
                   mergeVars>>

\* lines 85-87: get_rcs or setup raises, after the fetch
SetupRaise ==
    /\ pc = "fetched"
    /\ Raised(CurrentRepo.uri)
    /\ UNCHANGED <<storeVars, upVars, cycle, ri, mi, repoVars, ioVars, ran, wrote,
                   updates, completed, failed_phase, sync_start, tainted, mergeVars,
                   program_runs>>

\* lines 89-92: the branches of the repository, from a list of releases
RepoBranchSet ==
    /\ pc = "setup"
    /\ "releases" \in DOMAIN CurrentRepo
    /\ branches_left' = RepoBranches(CurrentRepo)
    /\ pc' = "branches"
    /\ UNCHANGED <<storeVars, upVars, result, cycle, ri, mi, branch, kind, last_id,
                   pending, ioVars, histVars, mergeVars>>

\* line 90: repo.get('releases') is None for a repository without the key, and
\* the for statement over None raises TypeError
ReleasesRaise ==
    /\ pc = "setup"
    /\ "releases" \notin DOMAIN CurrentRepo
    /\ Raised(CurrentRepo.uri)
    /\ UNCHANGED <<storeVars, upVars, cycle, ri, mi, repoVars, ioVars, ran, wrote,
                   updates, completed, failed_phase, sync_start, tainted, mergeVars,
                   program_runs>>

\* lines 82-83: get_vcs or fetch raises
FetchRaise ==
    /\ pc = "repos"
    /\ ri <= Len(Repos)
    /\ Raised(CurrentRepo.uri)
    /\ UNCHANGED <<storeVars, upVars, cycle, ri, mi, repoVars, ioVars, ran, wrote,
                   updates, completed, failed_phase, sync_start, tainted, mergeVars,
                   program_runs>>

\* lines 94-103: the next branch, its commit cursor and the commit stream
CommitLog(b) ==
    /\ pc = "branches"
    /\ b \in branches_left
    /\ branch' = b
    /\ kind' = "vcs"
    /\ last_id' = get_cursor(cursor, CursorKey("vcs", CurrentRepo.uri, b))
    /\ pending' = Process(_record_typer(VcsLog(CurrentRepo.uri, b, last_id'), "commit"))
    /\ ran' = Bump(ran, <<CurrentRepo.uri, b, "vcs">>)
    /\ pc' = "merge"
    /\ UNCHANGED <<storeVars, upVars, result, cycle, ri, mi, branches_left, ioVars, wrote,
                   updates, raised_in, completed, failed_phase, sync_start, quiet_runs,
                   tainted, mergeVars, program_runs>>

\* lines 112-118: the review cursor and the review stream of the branch
ReviewLog ==
    /\ pc = "reviews"
    /\ kind' = "rcs"
    /\ last_id' = get_cursor(cursor, CursorKey("rcs", CurrentRepo.uri, branch))
    /\ pending' = Process(_record_typer(RcsLog(CurrentRepo.uri, branch, last_id'),
                                        "review"))
    /\ ran' = Bump(ran, <<CurrentRepo.uri, branch, "rcs">>)
    /\ pc' = "merge"
    /\ UNCHANGED <<storeVars, upVars, result, cycle, ri, mi, branches_left, branch,
                   ioVars, wrote, updates, raised_in, completed, failed_phase, sync_start,
                   quiet_runs, tainted, mergeVars, program_runs>>

\* the merge policy process_repo passes to set_records for the phase
Handler(k) == IF k = "vcs" THEN "_merge_commits" ELSE "merge_records"

\* lines 104-105 and 119-120: set_records consumes the whole stream
SetRecordsDone ==
    /\ pc = "merge"
    /\ records' = SetRecords(records, pending, Len(pending), Handler(kind))
    /\ pc' = "cursor"
    /\ UNCHANGED <<kv, cursor, upVars, result, cycle, ri, mi, repoVars, ioVars, histVars,
                   mergeVars>>

\* a raising stream that nevertheless moves the cursor to the adapter's head
StreamRaiseAdvancing(n) ==
    /\ pc = "merge"
    /\ n \in 0 .. Len(pending)
    /\ records' = SetRecords(records, pending, n, Handler(kind))
    /\ cursor' = set_cursor(cursor, CurrentKey, GetLastId(kind, CurrentRepo.uri, branch))
    /\ failed_phase' = [key |-> CurrentKey, start |-> last_id,
                        merged |-> {pending[i].primary_key : i \in 1 .. n}]
    /\ Raised(CurrentRepo.uri)
    /\ UNCHANGED <<kv, upVars, cycle, ri, mi, repoVars, ioVars, ran, wrote, updates,
                   completed, sync_start, tainted, mergeVars, program_runs>>

\* lines 100-105 and 115-120: the stream raises after n records were merged
StreamRaise(n) ==
    /\ pc = "merge"
    /\ n \in 0 .. Len(pending)
    /\ records' = SetRecords(records, pending, n, Handler(kind))
    /\ failed_phase' = [key |-> CurrentKey, start |-> last_id,
                        merged |-> {pending[i].primary_key : i \in 1 .. n}]
    /\ Raised(CurrentRepo.uri)
    /\ UNCHANGED <<kv, cursor, upVars, cycle, ri, mi, repoVars, ioVars, ran, wrote,
                   updates, completed, sync_start, tainted, mergeVars, program_runs>>

\* the cursor taken from the stream instead of the adapter's head
AdvanceCursorStreamed ==
    /\ pc = "cursor"
    /\ last_id' = IF pending = <<>> THEN Absent ELSE pending[Len(pending)].id
    /\ cursor' = set_cursor(cursor, CurrentKey, last_id')
    /\ wrote' = wrote \cup {CurrentKey}
    /\ failed_phase' = IF failed_phase.key = CurrentKey THEN NoPhase ELSE failed_phase
    /\ pending' = <<>>
    /\ IF kind = "vcs"
       THEN pc' = "reviews" /\ UNCHANGED branches_left
       ELSE pc' = "branches" /\ branches_left' = branches_left \ {branch}
    /\ UNCHANGED <<kv, records, upVars, result, cycle, ri, mi, branch, kind, ioVars, ran,
                   updates, raised_in, completed, sync_start, quiet_runs, tainted,
                   mergeVars, program_runs>>

\* lines 107-108 and 122-123: get_last_id and the cursor write
AdvanceCursor ==
    /\ pc = "cursor"
    /\ last_id' = GetLastId(kind, CurrentRepo.uri, branch)
    /\ cursor' = set_cursor(cursor, CurrentKey, last_id')
    /\ wrote' = wrote \cup {CurrentKey}
    /\ failed_phase' = IF failed_phase.key = CurrentKey THEN NoPhase ELSE failed_phase
    /\ pending' = <<>>
    /\ IF kind = "vcs"
       THEN pc' = "reviews" /\ UNCHANGED branches_left
       ELSE pc' = "branches" /\ branches_left' = branches_left \ {branch}
    /\ UNCHANGED <<kv, records, upVars, result, cycle, ri, mi, branch, kind, ioVars, ran,
                   updates, raised_in, completed, sync_start, quiet_runs, tainted,
                   mergeVars, program_runs>>

\* lines 107 and 122: get_last_id raises
GetLastIdRaise ==
    /\ pc = "cursor"
    /\ Raised(CurrentRepo.uri)
    /\ UNCHANGED <<storeVars, upVars, cycle, ri, mi, repoVars, ioVars, ran, wrote,
                   updates, completed, failed_phase, sync_start, tainted, mergeVars,
                   program_runs>>

\* line 94: the for loop over the branches ends, process_repo returns
RepoDone ==
    /\ pc = "branches"
    /\ branches_left = {}
    /\ completed' = completed \cup {CurrentRepo.uri}
    /\ ri' = ri + 1
    /\ pc' = "repos"
    /\ UNCHANGED <<storeVars, upVars, result, cycle, mi, repoVars, ioVars, ran, wrote,
                   updates, raised_in, failed_phase, sync_start, quiet_runs, tainted,
                   mergeVars, program_runs>>

---------------------------------------------------------------------------
(* update_records after the repositories, and the passes that follow *)

\* mls.log and mps.log: the one record the list has to offer
ListLog(uri) == <<[id |-> 1, uri |-> uri]>>

MailLists == get_by_key("mail_lists")

MemberLists == get_by_key("member_lists")

\* update_records, line 158: the loop over the repositories ends
ReposDone ==
    /\ pc = "repos"
    /\ ri > Len(Repos)
    /\ pc' = "mail"
    /\ mi' = 1
    /\ UNCHANGED <<storeVars, upVars, result, cycle, ri, repoVars, ioVars, histVars,
                   mergeVars>>

\* process_mail_list: the typed, processed mail stream is written without a merge policy
ProcessMailList ==
    /\ pc = "mail"
    /\ mi <= Len(MailLists)
    /\ records' = SetRecords(records,
                             Process(_record_typer(ListLog(MailLists[mi]), "email")),
                             1, "none")
    /\ completed' = completed \cup {MailLists[mi]}
    /\ mi' = mi + 1
    /\ UNCHANGED <<kv, cursor, upVars, pc, result, cycle, ri, repoVars, ioVars, ran,
                   wrote, updates, raised_in, failed_phase, sync_start, quiet_runs,
                   tainted, mergeVars, program_runs>>

\* process_mail_list raises: mls.log raises, or the stream raises after set_records
\* has written n of its records
MailRaise(n) ==
    LET stream == Process(_record_typer(ListLog(MailLists[mi]), "email")) IN
    /\ pc = "mail"
    /\ mi <= Len(MailLists)
    /\ n \in 0 .. Len(stream)
    /\ records' = SetRecords(records, stream, n, "none")
    /\ Raised(MailLists[mi])
    /\ UNCHANGED <<kv, cursor, upVars, cycle, ri, mi, repoVars, ioVars, ran, wrote,
                   updates, completed, failed_phase, sync_start, tainted, mergeVars,
                   program_runs>>

\* update_records, line 163: the mailing lists are done
MailDone ==
    /\ pc = "mail"
    /\ mi > Len(MailLists)
    /\ pc' = "update"
    /\ UNCHANGED <<storeVars, upVars, result, cycle, ri, mi, repoVars, ioVars, histVars,
                   mergeVars>>

\* update_records, line 163: record_processor_inst.update(), update_records returns
RecordProcessorUpdate ==
    /\ pc = "update"
    /\ pc' = "corrections"
    /\ updates' = updates + 1
    /\ quiet_runs' = IF tainted THEN 0 ELSE quiet_runs + 1
    /\ UNCHANGED <<storeVars, upVars, result, cycle, ri, mi, repoVars, ioVars, ran, wrote,
                   raised_in, completed, failed_phase, sync_start, tainted, mergeVars,
                   program_runs>>

\* apply_corrections, lines 168-171: nothing could be read
CorrectionsUnreadable(d) ==
    /\ pc = "corrections"
    /\ d = <<>>
    /\ doc' = d
    /\ pc' = "members"
    /\ UNCHANGED <<storeVars, upVars, result, cycle, ri, mi, repoVars, default_data,
                   handed, feed, official, histVars, mergeVars>>

\* apply_corrections, lines 173-179: the valid entries go to the storage
ApplyCorrections(d) ==
    /\ pc = "corrections"
    /\ d # <<>>
    /\ "corrections" \in DOMAIN d
    /\ doc' = d
    /\ handed' = Append(handed, ValidCorrections(d.corrections))
    /\ records' = LET valid == ValidCorrections(d.corrections)
                  IN  StoreCorrections(records, valid, Len(valid))
    /\ pc' = "members"
    /\ UNCHANGED <<kv, cursor, upVars, result, cycle, ri, mi, repoVars, default_data,
                   feed, official, histVars, mergeVars>>

\* apply_corrections, line 174: the document has no list of corrections
CorrectionsRaise(d) ==
    /\ pc = "corrections"
    /\ d # <<>>
    /\ "corrections" \notin DOMAIN d
    /\ doc' = d
    /\ Raised("corrections")
    /\ UNCHANGED <<storeVars, upVars, cycle, ri, mi, repoVars, default_data, handed, feed,
                   official, ran, wrote, updates, completed, failed_phase, sync_start,
                   tainted, mergeVars, program_runs>>

RECURSIVE MemberLoop(_, _, _)
MemberLoop(recs, lists, n) ==
    IF n = 0 THEN recs
    ELSE SetRecords(MemberLoop(recs, lists, n - 1),
                    Process(_record_typer(ListLog(lists[n]), "member")), 1, "none")

\* update_members: every member list is logged, typed, processed and written
UpdateMembers ==
    /\ pc = "members"
    /\ records' = MemberLoop(records, MemberLists, Len(MemberLists))
    /\ completed' = completed \cup {MemberLists[i] : i \in DOMAIN MemberLists}
    /\ pc' = "time"
    /\ UNCHANGED <<kv, cursor, upVars, result, cycle, ri, mi, repoVars, ioVars, ran,
                   wrote, updates, raised_in, failed_phase, sync_start, quiet_runs,
                   tainted, mergeVars, program_runs>>

\* process_member_list of the j-th member list raises: the lists before it are
\* written, and set_records has written n records of its stream
MembersRaise(j, n) ==
    /\ pc = "members"
    /\ j \in DOMAIN MemberLists
    /\ LET stream == Process(_record_typer(ListLog(MemberLists[j]), "member")) IN
          /\ n \in 0 .. Len(stream)
          /\ records' = SetRecords(MemberLoop(records, MemberLists, j - 1), stream, n,
                                   "none")
    /\ completed' = completed \cup {MemberLists[i] : i \in 1 .. (j - 1)}
    /\ Raised(MemberLists[j])
    /\ UNCHANGED <<kv, cursor, upVars, cycle, ri, mi, repoVars, ioVars, ran, wrote,
                   updates, failed_phase, sync_start, tainted, mergeVars, program_runs>>

\* the update time stored without waiting for the member lists
SetUpdateTimeEarly ==
    /\ pc \in {"members", "time"}
    /\ kv' = ("runtime_storage_update_time" :> cycle) @@ kv
    /\ pc' = "idle"
    /\ result' = "ok"
    /\ UNCHANGED <<cursor, records, upVars, cycle, ri, mi, repoVars, ioVars, histVars,
                   mergeVars>>

\* main, lines 302-303: the update time is stored, main returns
SetUpdateTime ==
    /\ pc = "time"
    /\ kv' = ("runtime_storage_update_time" :> cycle) @@ kv
    /\ pc' = "idle"
    /\ result' = "ok"
    /\ UNCHANGED <<cursor, records, upVars, cycle, ri, mi, repoVars, ioVars, histVars,
                   mergeVars>>

---------------------------------------------------------------------------
(* The update cycle *)

HistInit ==
    /\ ran = <<>>
    /\ wrote = {}
    /\ updates = 0
    /\ program_runs = 0
    /\ raised_in = {}
    /\ completed = {}
    /\ failed_phase = NoPhase
    /\ sync_start = [records |-> <<>>, cursor |-> <<>>]
    /\ quiet_runs = 0
    /\ tainted = FALSE
    /\ last_merge = NoMerge
    /\ merged_union = <<>>
    /\ merges = 0

RepoInit ==
    /\ ri = 0
    /\ mi = 0
    /\ branches_left = {}
    /\ branch = ""
    /\ kind = ""
    /\ last_id = Absent
    /\ pending = <<>>

UpstreamInit ==
    /\ vcs_remote = [s \in StreamKeys |-> 1]
    /\ vcs_local = [s \in StreamKeys |-> 0]
    /\ rcs_remote = [s \in StreamKeys |-> 1]
    /\ news = 0

Init ==
    /\ kv = <<>>
    /\ cursor = <<>>
    /\ records = <<>>
    /\ default_data \in DefaultDataChoices
    /\ UpstreamInit
    /\ pc = "idle"
    /\ result = "none"
    /\ cycle = 0
    /\ RepoInit
    /\ handed = <<>>
    /\ doc = <<>>
    /\ feed = CycleFeed
    /\ official = <<>>
    /\ HistInit

Next ==
    \/ \E s \in StreamKeys : NewCommit(s)
    \/ \E s \in StreamKeys : NewReview(s)
    \/ LoadDefaultDataFail
    \/ LoadDefaultData
    \/ ProcessProgramList
    \/ ProgramListRaise
    \/ UpdatePids
    \/ RepoFetch
    \/ FetchRaise
    \/ RepoSetup
    \/ SetupRaise
    \/ RepoBranchSet
    \/ ReleasesRaise
    \/ \E b \in BranchNames : CommitLog(b)
    \/ ReviewLog
    \/ SetRecordsDone
    \/ \E n \in 0 .. MaxHead : StreamRaise(n)
    \/ AdvanceCursor
    \/ GetLastIdRaise
    \/ RepoDone
    \/ ReposDone
    \/ ProcessMailList
    \/ \E n \in 0 .. MaxHead : MailRaise(n)
    \/ MailDone
    \/ RecordProcessorUpdate
    \/ \E d \in CycleDocs : CorrectionsUnreadable(d)
    \/ \E d \in CycleDocs : ApplyCorrections(d)
    \/ \E d \in CycleDocs : CorrectionsRaise(d)
    \/ UpdateMembers
    \/ \E j \in DOMAIN MemberLists, n \in 0 .. MaxHead : MembersRaise(j, n)
    \/ SetUpdateTime

Spec == Init /\ [][Next]_vars

---------------------------------------------------------------------------
(* Properties of the update cycle *)

Kinds == {"vcs", "rcs"}

\* the record the i-th upstream record of a stream becomes is in the storage
Stored(k, uri, b, i) ==
    IF k = "vcs"
    THEN /\ <<"commit", uri, "", i>> \in DOMAIN records
         /\ b \in records[<<"commit", uri, "", i>>].branches
    ELSE <<"review", uri, b, i>> \in DOMAIN records

\* C1: every upstream record at or before a stored vcs:/rcs: cursor is in the
\* storage, and while a phase merges, its cursor has not been written in the cycle
C1_CursorDenotesMerged ==
    /\ \A k \in Kinds, uri \in Uris, b \in BranchNames :
          CursorKey(k, uri, b) \in DOMAIN cursor
              => \A i \in 1 .. cursor[CursorKey(k, uri, b)] : Stored(k, uri, b, i)
    /\ pc = "merge" => CurrentKey \notin wrote

SourceUris == Uris \cup {"ml://a", "ml://b"}

\* C2: when the pass of one repository or mailing list raised, every other
\* repository has run both phases of all its branches and advanced its cursors in
\* that cycle, and every other mailing list has been processed
C2_SiblingsStillRun ==
    (pc = "idle" /\ result = "raised" /\ raised_in \cap SourceUris # {})
        => /\ \A i \in DOMAIN Repos :
                Repos[i].uri \notin raised_in
                    => \A b \in Branches(Repos[i]), k \in Kinds :
                          /\ CursorKey(k, Repos[i].uri, b) \in wrote
                          /\ <<Repos[i].uri, b, k>> \in DOMAIN ran
           /\ \A m \in DOMAIN MailLists :
                MailLists[m] \notin raised_in => MailLists[m] \in completed

\* C3: after the record stream of a phase raised, the records merged before the
\* failure are in the storage and the cursor of the phase has the value it had
\* when the phase started, which is the value the next cycle reads
C3_RaisingStreamKeepsCursor ==
    failed_phase # NoPhase
        => /\ get_cursor(cursor, failed_phase.key) = failed_phase.start
           /\ \A pk \in failed_phase.merged :
                /\ pk \in DOMAIN records
                /\ pk[1] = "commit" => failed_phase.key[3] \in records[pk].branches
           /\ (pc \in {"merge", "cursor"} /\ CurrentKey = failed_phase.key)
                => last_id = failed_phase.start

C3_Witness ==
    /\ failed_phase # NoPhase
    /\ failed_phase.merged # {}
    /\ cycle = 2
    /\ pc = "merge"
    /\ CurrentKey = failed_phase.key

\* C4: a second update_records in succession, with no upstream arrival since the
\* first one started, leaves every record and every cursor as the first left them
C4_SecondRunChangesNothing ==
    (pc = "corrections" /\ quiet_runs >= 2)
        => /\ records = sync_start.records
           /\ cursor = sync_start.cursor

C4_Witness ==
    /\ pc = "corrections"
    /\ quiet_runs >= 2
    /\ \A i \in DOMAIN Repos : \A b \in Branches(Repos[i]), k \in Kinds :
          /\ CursorKey(k, Repos[i].uri, b) \in DOMAIN cursor
          /\ cursor[CursorKey(k, Repos[i].uri, b)] >= 1
          /\ Stored(k, Repos[i].uri, b, 1)

\* the branches the releases of a repository name
NamedBranches(repo) ==
    {b \in BranchNames :
        /\ "releases" \in DOMAIN repo
        /\ \E j \in DOMAIN repo.releases :
              "branch" \in DOMAIN repo.releases[j] /\ repo.releases[j].branch = b}

\* the branches for which a phase of the kind has started in this cycle
RanBranches(uri, k) == {x[2] : x \in {y \in DOMAIN ran : y[1] = uri /\ y[3] = k}}

\* C9: a repository whose process_repo has returned has run the commit phase and
\* the review phase exactly once for master and for every branch a release names,
\* and for no other branch
C9_BranchResolution ==
    /\ \A x \in DOMAIN ran : ran[x] = 1
    /\ \A i \in DOMAIN default_data.repos :
          default_data.repos[i].uri \in completed
              => \A k \in Kinds :
                    RanBranches(default_data.repos[i].uri, k)
                        = {"master"} \cup NamedBranches(default_data.repos[i])

C9_Witness ==
    \E i \in DOMAIN default_data.repos :
        /\ default_data.repos[i] = RepoA(<<RelKilo, RelNoBranch>>)
        /\ default_data.repos[i].uri \in completed
        /\ RanBranches(default_data.repos[i].uri, "rcs") = {"master", "stable/kilo"}


---------------------------------------------------------------------------
(* The commit merge policy on one identity *)

CommitKey == <<"commit", "git://a", "", 1>>

\* the processed commit records that share the identity CommitKey
IncomingCommits ==
    {[primary_key |-> CommitKey, record_type |-> "commit", id |-> 1, uri |-> "git://a",
      branches |-> bs, message |-> m] :
        bs \in (SUBSET BranchNames) \ {{}}, m \in {"first", "amended"}}

\* process_repo, lines 104-105: set_records with the commit merge policy, one record
MergeCommit(new) ==
    LET had == CommitKey \in DOMAIN records IN
    /\ pc = "merging"
    /\ merges < MaxMerges
    /\ merges' = merges + 1
    /\ records' = SetRecord(records, new, "_merge_commits")
    /\ last_merge' =
          IF had
          THEN [had |-> TRUE, ret |-> _merge_commits(records[CommitKey], new).ret,
                pk |-> CommitKey, before |-> records[CommitKey], new |-> new]
          ELSE [had |-> FALSE, ret |-> FALSE, pk |-> CommitKey, new |-> new]
    /\ merged_union' =
          IF had
          THEN [merged_union EXCEPT ![CommitKey].branches = @ \cup new.branches]
          ELSE (CommitKey :> [first |-> records'[CommitKey], branches |-> new.branches])
    /\ UNCHANGED <<kv, cursor, upVars, pc, result, cycle, ri, mi, repoVars, ioVars,
                   histVars>>

InitMerge ==
    /\ kv = <<>>
    /\ cursor = <<>>
    /\ records = <<>>
    /\ default_data = [repos |-> <<>>, mail_lists |-> <<>>, member_lists |-> <<>>,
                       releases |-> KnownReleases]
    /\ UpstreamInit
    /\ pc = "merging"
    /\ result = "none"
    /\ cycle = 0
    /\ RepoInit
    /\ handed = <<>>
    /\ doc = <<>>
    /\ feed = <<>>
    /\ official = <<>>
    /\ HistInit

NextMerge == \E new \in IncomingCommits : MergeCommit(new)

SpecMerge == InitMerge /\ [][NextMerge]_vars

\* C5: the stored branch set of a commit is the union of the branch sets merged
\* under its identity, a merge loses no branch, and every other field of the
\* stored record is the one of the record first stored
C5_BranchSetIsUnion ==
    CommitKey \in DOMAIN records
        => /\ records[CommitKey].branches = merged_union[CommitKey].branches
           /\ last_merge.had => last_merge.before.branches \subseteq records[CommitKey].branches
           /\ DOMAIN records[CommitKey] = DOMAIN merged_union[CommitKey].first
           /\ \A f \in DOMAIN records[CommitKey] \ {"branches"} :
                records[CommitKey][f] = merged_union[CommitKey].first[f]

\* {master}, then a merge that brings stable/kilo, then {master} again
C5_Witness ==
    /\ merges = 3
    /\ merged_union[CommitKey].first.branches = {"master"}
    /\ last_merge.had
    /\ last_merge.before.branches = {"master", "stable/kilo"}
    /\ last_merge.new.branches = {"master"}
    /\ last_merge.new.message # merged_union[CommitKey].first.message
    /\ records[CommitKey].branches = {"master", "stable/kilo"}

\* C6: a merge whose incoming branch set is a subset of the existing one, equal
\* sets included, returns "no update" and leaves the record as it was; an update
\* is reported only for an incoming branch the existing record does not have
C6_SubsetIsNoUpdate ==
    last_merge.had
        => /\ last_merge.new.branches \subseteq last_merge.before.branches
                => (~last_merge.ret /\ records[CommitKey] = last_merge.before)
           /\ last_merge.ret
                => ~(last_merge.new.branches \subseteq last_merge.before.branches)

---------------------------------------------------------------------------
(* The taxonomy builder on descriptor feeds *)

MaxModules == 2     \* modules of a program in the taxonomy specification

StatusValues == {"juno", "kilo", "Kilo"}

TaxRepos == {<<"openstack", "nova">>, <<"openstack", "neutron">>}

TagSet == {RELEASE_TAGS[t] : t \in DOMAIN RELEASE_TAGS}

\* a descriptor module: a repo and at most one status field, or two of them
TaxModules ==
    {[repo |-> r] : r \in TaxRepos}
    \cup {(t :> v) @@ [repo |-> <<"openstack", "nova">>] :
            t \in TagSet, v \in StatusValues}
    \cup {("mature-since" :> "kilo") @@ [repo |-> <<"openstack", "neutron">>],
          ("incubated-since" :> "juno") @@ ("mature-since" :> "kilo")
              @@ [repo |-> <<"openstack", "nova">>]}

ModuleLists == UNION {[1 .. n -> TaxModules] : n \in 0 .. MaxModules}

Coded(ms) == [name |-> "Compute", info |-> [codename |-> "Nova", projects |-> ms]]
Plain(ms) == [name |-> "Documentation", info |-> [projects |-> ms]]

\* a program without codename whose lower-cased name is the module of a repository
Named(ms) == [name |-> "Nova", info |-> [projects |-> ms]]

TaxFeeds ==
    {<<Coded(ms)>> : ms \in ModuleLists}
    \cup {<<Plain(ms)>> : ms \in ModuleLists}
    \cup {<<Coded(<<m>>), Plain(<<n>>)>> : m \in TaxModules, n \in TaxModules}
    \cup {<<Plain(<<n>>), Coded(<<m>>)>> : m \in TaxModules, n \in TaxModules}
    \cup {<<Named(<<m>>)>> : m \in TaxModules}

TaxReleases ==
    {<<[release_name |-> "Prehistory"], [release_name |-> "Icehouse"],
       [release_name |-> "Juno"], [release_name |-> "Kilo"]>>,
     <<[release_name |-> "Prehistory"], [release_name |-> "Juno"],
       [release_name |-> "Kilo"], [release_name |-> "Liberty"]>>,
     <<[release_name |-> "Prehistory"]>>}

\* a group an operator registered by hand in an earlier cycle
ManualGroup ==
    [id |-> "deployment", module_group_name |-> "Deployment", tag |-> "group",
     modules |-> <<"fuel">>]

\* the groups an earlier cycle left in the storage: one registered by hand and
\* three computed from the feed of that time
PersistedGroups ==
    ("deployment" :> ManualGroup)
    @@ ("other" :> [id |-> "other", modules |-> <<"glance">>, releases |-> <<>>])
    @@ ("nova" :> [id |-> "nova", module_group_name |-> "Nova", tag |-> "program",
                   modules |-> <<"nova", "glance">>, releases |-> <<>>])
    @@ ("official-mature" :>
            [id |-> "official-mature", module_group_name |-> "official-mature",
             tag |-> "project_type", modules |-> <<>>,
             releases |-> ("juno" :> <<"glance">>)])

TaxStores ==
    {[releases |-> rel, repos |-> <<RepoA(<<>>)>>] : rel \in TaxReleases}
    \cup {[releases |-> rel, repos |-> <<RepoA(<<>>)>>, module_groups |-> PersistedGroups] :
            rel \in TaxReleases}

InitTax ==
    /\ kv \in TaxStores
    /\ cursor = <<>>
    /\ records = <<>>
    /\ default_data = [repos |-> <<>>, mail_lists |-> <<>>, member_lists |-> <<>>,
                       releases |-> KnownReleases]
    /\ UpstreamInit
    /\ pc = "programs"
    /\ result = "none"
    /\ cycle = 1
    /\ RepoInit
    /\ handed = <<>>
    /\ doc = <<>>
    /\ feed \in TaxFeeds
    /\ official = <<>>
    /\ HistInit

MaxProgramRuns == 2     \* calls of process_program_list in the taxonomy specification

\* process_program_list called once more, on the storage the call before left
ProcessProgramListAgain ==
    /\ pc = "pids"
    /\ program_runs < MaxProgramRuns
    /\ kv' = ("module_groups" :> process_program_list(kv, feed)) @@ kv
    /\ official' = _read_official_programs_yaml(feed, ReleaseNames(kv))
    /\ program_runs' = program_runs + 1
    /\ UNCHANGED <<cursor, records, upVars, pc, result, cycle, ri, mi, repoVars,
                   default_data, handed, doc, feed, ran, wrote, updates, raised_in,
                   completed, failed_phase, sync_start, quiet_runs, tainted, mergeVars>>

NextTax == ProcessProgramList \/ ProgramListRaise \/ ProcessProgramListAgain

SpecTax == InitTax /\ [][NextTax]_vars

\* the modules of the feed, each with the program entry it belongs to
FeedModules ==
    UNION {{<<p, i>> : i \in DOMAIN feed[p].info.projects} : p \in DOMAIN feed}

ModuleAt(x) == feed[x[1]].info.projects[x[2]]

StatusTags(m) == DOMAIN m \cap TagSet

Occurs(name, seq) == \E i \in DOMAIN seq : seq[i] = name

TypeOfTag(t) ==
    CASE t = "bootstrapped-since" -> "official-bootstrap"
      [] t = "incubated-since" -> "official-incubation"
      [] t = "mature-since" -> "official-mature"
      [] t = "core-since" -> "official-core"

\* the module is the only one of the feed with its short name
UniqueName(x) ==
    \A y \in FeedModules : ModuleAt(y)["repo"][2] = ModuleAt(x)["repo"][2] => y = x

\* the module has one status field, and it names the q-th known release
SingleStatus(x, t, q) ==
    /\ StatusTags(ModuleAt(x)) = {t}
    /\ q \in DOMAIN ReleaseNames(kv)
    /\ ReleaseNames(kv)[q] = ModuleAt(x)[t]

\* C7: a module whose only status field names a known release is listed
\* in the bucket of that release of the matching project_type group, and in no
\* other release bucket of any group
C7_OnlyMatchingBucket ==
    pc = "pids"
        => \A x \in FeedModules, t \in TagSet, q \in DOMAIN ReleaseNames(kv) :
              (SingleStatus(x, t, q) /\ UniqueName(x))
                  => \A g \in DOMAIN official, r \in DOMAIN ReleaseNames(kv) :
                        LET rn == ReleaseNames(kv)[r]
                            listed == /\ rn \in DOMAIN official[g].releases
                                      /\ Occurs(ModuleAt(x)["repo"][2],
                                                official[g].releases[rn])
                        IN  listed <=> (g = TypeOfTag(t) /\ r = q)

\* the group id the feed entry of a program gets
ProgramGroup(p) ==
    IF "codename" \in DOMAIN feed[p].info THEN FormatGroup(feed[p].info.codename)
    ELSE Lower(feed[p].name)

Count(name, seq) == Cardinality({i \in DOMAIN seq : seq[i] = name})

\* C8: a module without any of the four status fields is appended to the modules
\* of `other` and to the modules of its program group, and its name enters no
\* release bucket of any group
C8_NoStatusGoesToOther ==
    pc = "pids"
        => \A x \in FeedModules :
              StatusTags(ModuleAt(x)) = {}
                  => LET name == ModuleAt(x)["repo"][2]
                         same == {y \in FeedModules : ModuleAt(y)["repo"][2] = name}
                     IN  /\ "other" \in DOMAIN official
                         /\ Count(name, official["other"].modules)
                                = Cardinality({y \in same : StatusTags(ModuleAt(y)) = {}})
                         /\ Occurs(name, official[ProgramGroup(x[1])].modules)
                         /\ (\A y \in same : StatusTags(ModuleAt(y)) = {})
                                => \A g \in DOMAIN official :
                                      \A r \in DOMAIN official[g].releases :
                                          ~Occurs(name, official[g].releases[r])

C8_Witness ==
    /\ pc = "pids"
    /\ Len(ReleaseNames(kv)) = 3
    /\ \E x \in FeedModules, y \in FeedModules :
          /\ StatusTags(ModuleAt(x)) = {}
          /\ StatusTags(ModuleAt(y)) # {}
          /\ Occurs(ModuleAt(x)["repo"][2], official["other"].modules)
          /\ ~Occurs(ModuleAt(y)["repo"][2], official["other"].modules)

---------------------------------------------------------------------------
(* The corrections pass on corrections documents *)

MaxCorrections == 3     \* entries of a corrections document

CorrEntries ==
    {[primary_key |-> CommitKey, module |-> "nova"],
     [primary_key |-> <<"commit", "git://a", "", 2>>, module |-> "glance"],
     [module |-> "neutron"],
     [company_name |-> "unknown"]}

CorrDocs ==
    {<<>>, [note |-> "no corrections"]}
    \cup {[corrections |-> cs] :
            cs \in UNION {[1 .. n -> CorrEntries] : n \in 0 .. MaxCorrections}}

CorrRecords ==
    [pk \in {CommitKey, <<"commit", "git://b", "", 1>>} |->
        [primary_key |-> pk, record_type |-> "commit", id |-> 1, uri |-> pk[2],
         branches |-> {"master"}, record_id |-> IF pk = CommitKey THEN 0 ELSE 1]]

InitCorr ==
    /\ kv = <<>>
    /\ cursor = <<>>
    /\ records = CorrRecords
    /\ default_data = [repos |-> <<>>, mail_lists |-> <<>>, member_lists |-> <<>>,
                       releases |-> KnownReleases]
    /\ UpstreamInit
    /\ pc = "corrections"
    /\ result = "none"
    /\ cycle = 1
    /\ RepoInit
    /\ handed = <<>>
    /\ doc \in CorrDocs
    /\ feed = <<>>
    /\ official = <<>>
    /\ HistInit

NextCorr ==
    \/ CorrectionsUnreadable(doc)
    \/ ApplyCorrections(doc)
    \/ CorrectionsRaise(doc)

SpecCorr == InitCorr /\ [][NextCorr]_vars

\* the entries of a document that carry primary_key, in document order
RECURSIVE Keyed(_)
Keyed(cs) ==
    IF cs = <<>> THEN <<>>
    ELSE IF "primary_key" \in DOMAIN Head(cs) THEN <<Head(cs)>> \o Keyed(Tail(cs))
    ELSE Keyed(Tail(cs))

\* C10: a corrections pass over a fetched document hands the storage exactly
\* the entries that carry primary_key, in document order, whatever entries
\* without primary_key lie between them, and a record no entry with primary_key
\* names is left as it was
C10_OnlyKeyedCorrections ==
    [][(pc = "corrections" /\ pc' = "members" /\ "corrections" \in DOMAIN doc')
          => /\ handed' = Append(handed, Keyed(doc'.corrections))
             /\ DOMAIN records' = DOMAIN records
             /\ \A pk \in DOMAIN records :
                   (\A i \in DOMAIN doc'.corrections :
                       "primary_key" \in DOMAIN doc'.corrections[i]
                           => doc'.corrections[i].primary_key # pk)
                       => records'[pk] = records[pk]]_vars

\* a document with an entry without primary_key before one that carries it
C10_Witness ==
    /\ pc = "members"
    /\ "corrections" \in DOMAIN doc
    /\ Len(doc.corrections) = 3
    /\ "primary_key" \notin DOMAIN doc.corrections[1]
    /\ "primary_key" \in DOMAIN doc.corrections[2]
    /\ "primary_key" \notin DOMAIN doc.corrections[3]
    /\ handed = <<<<doc.corrections[2]>>>>
    /\ "module" \in DOMAIN records[CommitKey]

---------------------------------------------------------------------------
(* The passes of main() and their order *)

\* C11: the corrections pass always hands over to the member lists; when the
\* document could not be read, the storage primitive is not called and no record
\* changes; no document makes the pass raise
C11_CorrectionsNeverStop ==
    [][pc = "corrections"
          => /\ pc' = "members"
             /\ doc' = <<>> => (handed' = handed /\ records' = records)]_vars

\* the repositories, mailing lists and member lists configured for the cycle
ConfiguredSources ==
    {Repos[i].uri : i \in DOMAIN Repos}
    \cup {MailLists[i] : i \in DOMAIN MailLists}
    \cup {MemberLists[i] : i \in DOMAIN MemberLists}

\* C12: the taxonomy pass and the corrections pass start only when every
\* configured repository, mailing list and member list has been synchronized in
\* the cycle, and after the corrections pass no synchronizer writes a record
C12_PassesAfterSynchronization ==
    /\ [](pc \in {"programs", "corrections"} => ConfiguredSources \subseteq completed)
    /\ [][(pc \in {"members", "time"}) => records' = records]_vars

\* C13: update() is called at most once in a cycle and exactly once in a cycle
\* that completes, and when it has been called every configured repository,
\* mailing list and member list has been synchronized in the cycle
C13_UpdateOnceAfterAllSources ==
    /\ updates <= 1
    /\ (pc = "idle" /\ result = "ok") => updates = 1
    /\ updates = 1 => ConfiguredSources \subseteq completed

\* get_by_key('runtime_storage_update_time')
UpdateTime(store) ==
    IF "runtime_storage_update_time" \in DOMAIN store
    THEN store["runtime_storage_update_time"] ELSE Absent

\* C14: runtime_storage_update_time changes only in the step that ends a run of
\* main() with success, after the taxonomy, every configured source, update()
\* and the corrections; a run that ends otherwise leaves the key as it was, and
\* between two runs nothing is written to the storage
C14_UpdateTimeOnCompletionOnly ==
    [][/\ UpdateTime(kv') # UpdateTime(kv)
            => /\ pc = "time" /\ pc' = "idle" /\ result' = "ok"
               /\ "module_groups" \in DOMAIN kv
               /\ ConfiguredSources \subseteq completed
               /\ updates = 1
               /\ cursor' = cursor /\ records' = records
       /\ (pc # "idle" /\ pc' = "idle" /\ result' = "ok")
            => (UpdateTime(kv') = cycle /\ UpdateTime(kv) # cycle)
       /\ (pc' = "idle" /\ result' \in {"failed", "raised"})
            => UpdateTime(kv') = UpdateTime(kv)
       /\ (pc = "idle" /\ pc' = "idle") => UNCHANGED storeVars]_vars

\* the second run raises in the member lists, the key keeps the time of the first
C14_Witness ==
    /\ pc = "idle"
    /\ cycle = 2
    /\ result = "raised"
    /\ "mp://members" \in raised_in
    /\ UpdateTime(kv) = 1

\* C15: a run of main() that cannot load the default data ends at once with a
\* failure indication: the storage, the local clones and the corrections handed
\* over are as before, and no phase, source, cursor write or update() is on the
\* record of the run
C15_NoDefaultDataNoPass ==
    /\ [][(cycle' = cycle + 1 /\ result' = "failed")
             => /\ pc' = "idle"
                /\ UNCHANGED <<storeVars, vcs_local, handed, official, program_runs>>]_vars
    /\ [](result = "failed"
             => /\ pc = "idle"
                /\ ran = <<>> /\ wrote = {} /\ completed = {} /\ raised_in = {}
                /\ updates = 0)

\* the default data fails to load in the run after a complete one
C15_Witness ==
    /\ result = "failed"
    /\ cycle = 2
    /\ records # <<>>
    /\ cursor # <<>>
    /\ UpdateTime(kv) = 1

\* C16: a phase that completes writes its cursor key with the head of its adapter
\* as it is after the merge, and a phase whose log yields nothing leaves the
\* records alone
C16_CursorIsAdapterHead ==
    [][/\ (pc = "cursor" /\ pc' \in {"reviews", "branches"})
            => /\ CurrentKey \in DOMAIN cursor'
               /\ cursor'[CurrentKey] =
                     IF kind = "vcs" THEN vcs_local[<<CurrentRepo.uri, branch>>]
                     ELSE rcs_remote[<<CurrentRepo.uri, branch>>]
               /\ CurrentKey \in wrote'
       /\ (pc = "merge" /\ pc' = "cursor" /\ pending = <<>>) => records' = records]_vars

\* the log of a review phase is empty although the head is past the last review
\* merged: the cursor was written with the head, not with the last id streamed
C16_Witness ==
    /\ pc = "cursor"
    /\ kind = "rcs"
    /\ pending = <<>>
    /\ CurrentKey \in DOMAIN cursor
    /\ cursor[CurrentKey] = 2
    /\ rcs_remote[<<CurrentRepo.uri, branch>>] = 2
    /\ <<"review", CurrentRepo.uri, branch, 2>> \notin DOMAIN records
    /\ records = sync_start.records

\* the repository has no releases key, or an empty list of releases
DeclaresNoReleases(repo) == "releases" \notin DOMAIN repo \/ repo.releases = <<>>

\* C17: process_repo of a repository that declares no releases goes on from the
\* adapters' setup to the branch master alone, and when it has returned it has
\* run one commit phase and one review phase, for master, and written both
\* master cursors
C17_NoReleasesOnlyMaster ==
    /\ [][(pc = "setup" /\ DeclaresNoReleases(CurrentRepo))
             => (pc' = "branches" /\ branches_left' = {"master"})]_vars
    /\ [](\A i \in DOMAIN default_data.repos :
             (/\ DeclaresNoReleases(default_data.repos[i])
              /\ default_data.repos[i].uri \in completed)
                 => \A k \in Kinds :
                       /\ RanBranches(default_data.repos[i].uri, k) = {"master"}
                       /\ ran[<<default_data.repos[i].uri, "master", k>>] = 1
                       /\ CursorKey(k, default_data.repos[i].uri, "master") \in wrote)

---------------------------------------------------------------------------
(* The layers of the persisted taxonomy *)

\* get_by_key('module_groups') or {}
Persisted(store) == IF "module_groups" \in DOMAIN store THEN store["module_groups"] ELSE <<>>

\* the group ids the repository layer writes
RegisteredIds == {Repos[i].module : i \in DOMAIN Repos} \cup {"unknown"}

\* C18: process_program_list persists a group tagged module under the module name
\* of every registered repository and under `unknown`; any other id the feed
\* computes has the group of the feed; any other id has the group persisted
\* before; and there is no further group
C18_TaxonomyLayers ==
    [][(program_runs' = program_runs + 1)
          => LET old == Persisted(kv)
                 new == Persisted(kv')
             IN  /\ DOMAIN new = RegisteredIds \cup DOMAIN official' \cup DOMAIN old
                 /\ \A g \in RegisteredIds :
                       /\ new[g].id = g
                       /\ new[g].tag = "module"
                       /\ new[g] = make_module_group(g, "module")
                 /\ \A g \in DOMAIN official' \ RegisteredIds : new[g] = official'[g]
                 /\ \A g \in DOMAIN old \ (RegisteredIds \cup DOMAIN official') :
                       new[g] = old[g]]_vars

\* the feed computes the groups `nova` and `other`, both persisted before: the
\* repository nova wins over the feed, the feed wins over the persisted `other`,
\* and the group registered by hand is still there
C18_Witness ==
    /\ pc = "pids"
    /\ program_runs = 1
    /\ {"nova", "other"} \subseteq DOMAIN official
    /\ "deployment" \in DOMAIN Persisted(kv)
    /\ official["nova"].tag = "program"
    /\ Persisted(kv)["nova"].tag = "module"
    /\ Persisted(kv)["other"] = official["other"]
    /\ Persisted(kv)["other"] # PersistedGroups["other"]
    /\ Persisted(kv)["deployment"] = ManualGroup
    /\ Persisted(kv)["official-mature"].releases = <<>>

ProjectTypeIds ==
    {"official-bootstrap", "official-incubation", "official-mature", "official-core"}

\* C19: every group the parse of the feed returns has its key as id, a
\* module_group_name and one of the four tags; the groups tagged project_type are
\* the four official ones, only they have release buckets, and the only group
\* that is neither one of them nor a program is `other`
C19_FeedGroupsWellFormed ==
    pc = "pids"
        => /\ \A g \in DOMAIN official :
                /\ official[g].id = g
                /\ "module_group_name" \in DOMAIN official[g]
                /\ "tag" \in DOMAIN official[g]
                /\ official[g].tag \in {"project_type", "program", "module", "other"}
           /\ {g \in DOMAIN official : official[g].tag = "project_type"} = ProjectTypeIds
           /\ \A g \in DOMAIN official :
                official[g].releases # <<>> => g \in ProjectTypeIds
           /\ \A g \in DOMAIN official :
                (g \notin ProjectTypeIds /\ official[g].tag # "program") => g = "other"

\* C20: a second process_program_list in succession, with the same feed, known
\* releases and repositories, writes the module_groups the first one wrote
C20_SecondRunSameTaxonomy ==
    [][(program_runs >= 1 /\ program_runs' = program_runs + 1)
          => /\ Persisted(kv') = Persisted(kv)
             /\ official' = official]_vars

\* the second run over a feed with a module in release buckets and in `other`'s
\* modules, with the group registered by hand in the storage
C20_Witness ==
    /\ pc = "pids"
    /\ program_runs = 2
    /\ "other" \in DOMAIN official
    /\ official["other"].modules # <<>>
    /\ \E g \in ProjectTypeIds : official[g].releases # <<>>
    /\ "deployment" \in DOMAIN Persisted(kv)
    /\ Persisted(kv)["deployment"] = ManualGroup

====
